---- MODULE Spec2Model ----
(***************************************************************************)
(* Model of src/src/diff.ts: the line-level Myers text differ              *)
(* (myersDiff, buildEditScript, diffSnapshots) and the pixel-level image   *)
(* differ (pixelDiffFn, diffScreenshots).                                  *)
(*                                                                         *)
(* Texts are sequences of one-character strings.  A JavaScript array read  *)
(* outside the array yields `undefined`; the model keeps that outcome:     *)
(* a line read outside a line array is the value Undefined, and a read     *)
(* outside a typed array is flagged as not defined.                        *)
(***************************************************************************)
EXTENDS Integers, Sequences, FiniteSets, TLC

\* ------------------------------------------------------------------------
\* Bounds of the model
\* ------------------------------------------------------------------------

\* Total number of characters of the two texts together.
MaxChars == 6

\* An image has at most this many pixels (width * height).
MaxPixels == 2

Chars == {"a", "b", "\n"}

NL == "\n"

TextsUpTo(n) == UNION {[1..len -> Chars] : len \in 0..n}

\* ------------------------------------------------------------------------
\* State
\* ------------------------------------------------------------------------
VARIABLES
    before, after,      \* the two texts given to diffSnapshots
    pc,                 \* position inside diffSnapshots
    a, b,               \* linesA, linesB
    v,                  \* myersDiff: furthest-reached x per diagonal
    trace,              \* myersDiff: snapshots of v, one per depth
    d,                  \* myersDiff: the depth being processed
    x, y,               \* buildEditScript: current point
    bd,                 \* buildEditScript: loop variable d
    edits,              \* buildEditScript: the script (built in reverse)
    snap,               \* buildEditScript: the snapshot read in the last step
    prevX, prevY,       \* buildEditScript: predecessor endpoint of the last step
    prevDef,            \* FALSE when prevX was read outside the snapshot
    result,             \* what diffSnapshots returns
    imgA, imgB,         \* the decoded baseline and current images
    ipc,                \* position inside diffScreenshots
    threshold,          \* opts.threshold ?? 0.1, in tenths
    pixelResult,        \* what pixelDiffFn returns
    shotResult          \* what diffScreenshots returns

textVars == <<before, after, pc, a, b, v, trace, d, x, y, bd, edits, snap,
              prevX, prevY, prevDef, result>>
imgVars == <<imgA, imgB, ipc, threshold, pixelResult, shotResult>>
vars == <<textVars, imgVars>>

\* ------------------------------------------------------------------------
\* Text diffing
\* ------------------------------------------------------------------------

\* The value of an array read outside the array, as a line.
Undefined == <<"undefined">>

\* What a template literal renders for a line.
LineText(line) ==
    IF line = Undefined
    THEN <<"u", "n", "d", "e", "f", "i", "n", "e", "d">>
    ELSE line

\* arr[i] of a JavaScript array of lines (0-based).
LineAt(arr, i) == IF i >= 0 /\ i < Len(arr) THEN arr[i + 1] ELSE Undefined

\* String.prototype.split('\n'): the empty text gives one empty line.
RECURSIVE Split(_)
Split(text) ==
    IF text = <<>> THEN << <<>> >>
    ELSE LET rest == Split(Tail(text)) IN
         IF Head(text) = NL
         THEN << <<>> >> \o rest
         ELSE << <<Head(text)>> \o Head(rest) >> \o Tail(rest)

\* Array.prototype.join('\n').
RECURSIVE Join(_)
Join(lines) ==
    IF lines = <<>> THEN <<>>
    ELSE IF Len(lines) = 1 THEN lines[1]
    ELSE lines[1] \o <<NL>> \o Join(Tail(lines))

Reverse(s) == [i \in 1..Len(s) |-> s[Len(s) + 1 - i]]

Edit(type, line) == [type |-> type, line |-> line]

\* myersDiff, the identical fast path.
Identical(la, lb) ==
    /\ Len(la) = Len(lb)
    /\ \A i \in 1..Len(la) : la[i] = lb[i]

\* The fast path returning an empty script.
AllEqualDropped(la) == <<>>

AllEqual(la) == [i \in 1..Len(la) |-> Edit("equal", la[i])]

\* const v = new Int32Array(2 * max + 1); v.fill(-1); v[max + 1] = 0
InitialV(max) == [i \in 0..(2 * max) |-> IF i = max + 1 THEN 0 ELSE -1]

\* The snake: while (x < n && y < m && a[x] === b[y]) { x++; y++ }
RECURSIVE Snake(_, _, _, _)
Snake(la, lb, sx, sy) ==
    IF sx < Len(la) /\ sy < Len(lb) /\ la[sx + 1] = lb[sy + 1]
    THEN Snake(la, lb, sx + 1, sy + 1)
    ELSE sx

\* The inner loop of myersDiff for depth dd, from diagonal k on.
RECURSIVE SearchDiagonals(_, _, _, _, _)
SearchDiagonals(vv, dd, k, la, lb) ==
    IF k > dd THEN [v |-> vv, found |-> FALSE]
    ELSE LET max == Len(la) + Len(lb)
             idx == k + max
             x0 == IF k = -dd \/ (k # dd /\ vv[idx - 1] < vv[idx + 1])
                   THEN vv[idx + 1]
                   ELSE vv[idx - 1] + 1
             x1 == Snake(la, lb, x0, x0 - k)
             y1 == x1 - k
             v1 == [vv EXCEPT ![idx] = x1]
         IN IF x1 >= Len(la) /\ y1 >= Len(lb)
            THEN [v |-> v1, found |-> TRUE]
            ELSE SearchDiagonals(v1, dd, k + 2, la, lb)

\* trace[i] of the JavaScript array of snapshots (0-based).
TraceAt(tr, i) == tr[i + 1]

\* A read of a typed array is defined inside the array only.
InV(vv, i) == i \in DOMAIN vv

\* v[i] < v[j]: false when either read is undefined.
LessV(vv, i, j) == InV(vv, i) /\ InV(vv, j) /\ vv[i] < vv[j]

\* The snapshot one backtrace iteration for depth dd reads.
SnapshotFor(tr, dd) == TraceAt(tr, dd - 1)

\* The predecessor diagonal of diagonal k at depth dd.
PrevK(vv, dd, k, max) ==
    IF k = -dd \/ (k # dd /\ LessV(vv, k + max - 1, k + max + 1))
    THEN k + 1
    ELSE k - 1

\* while (x > prevX && y > prevY) { x--; y--; edits.push(equal a[x]) }
RECURSIVE WalkDiagonal(_, _, _, _, _, _)
WalkDiagonal(la, cx, cy, px, py, es) ==
    IF cx > px /\ cy > py
    THEN WalkDiagonal(la, cx - 1, cy - 1, px, py,
                      Append(es, Edit("equal", LineAt(la, cx - 1))))
    ELSE [x |-> cx, y |-> cy, edits |-> es]

\* One iteration of the loop of buildEditScript, for depth dd.
BacktraceIteration(tr, la, lb, dd, cx, cy, es) ==
    LET max == Len(la) + Len(lb)
        vv == SnapshotFor(tr, dd)
        k == cx - cy
        pk == PrevK(vv, dd, k, max)
        pdef == InV(vv, pk + max)
        px == IF pdef THEN vv[pk + max] ELSE 0
        py == px - pk
        w == IF pdef THEN WalkDiagonal(la, cx, cy, px, py, es)
             ELSE [x |-> cx, y |-> cy, edits |-> es]
    IN IF pdef /\ w.x = px
       THEN [x |-> w.x, y |-> w.y - 1,
             edits |-> Append(w.edits, Edit("insert", LineAt(lb, w.y - 1))),
             snap |-> vv, prevX |-> px, prevY |-> py, prevDef |-> pdef]
       ELSE [x |-> w.x - 1, y |-> w.y,
             edits |-> Append(w.edits, Edit("delete", LineAt(la, w.x - 1))),
             snap |-> vv, prevX |-> px, prevY |-> py, prevDef |-> pdef]

\* Remaining diagonal at d = 0: while (x > 0 && y > 0) ...
RemainingDiagonal(la, cx, cy, es) == WalkDiagonal(la, cx, cy, 0, 0, es).edits

Count(es, type) == Cardinality({i \in 1..Len(es) : es[i].type = type})

Prefix(type) ==
    CASE type = "equal" -> <<" ", " ">>
      [] type = "insert" -> <<"+", " ">>
      [] type = "delete" -> <<"-", " ">>

DiffLines(es) == [i \in 1..Len(es) |-> Prefix(es[i].type) \o LineText(es[i].line)]

\* The record diffSnapshots returns for a script.
SnapshotData(es) ==
    [diff |-> Join(DiffLines(es)),
     additions |-> Count(es, "insert"),
     removals |-> Count(es, "delete"),
     unchanged |-> Count(es, "equal"),
     changed |-> (Count(es, "insert") > 0 \/ Count(es, "delete") > 0)]

\* The outer loop of myersDiff from depth dd on: the trace it leaves.
RECURSIVE SearchFrom(_, _, _, _, _)
SearchFrom(vv, tr, dd, la, lb) ==
    LET tr1 == Append(tr, vv)
        r == SearchDiagonals(vv, dd, -dd, la, lb)
    IN IF r.found \/ dd + 1 > Len(la) + Len(lb)
       THEN tr1
       ELSE SearchFrom(r.v, tr1, dd + 1, la, lb)

\* The loop of buildEditScript from depth dd down, then the remaining
\* diagonal and the reverse.
RECURSIVE BacktraceFrom(_, _, _, _, _, _, _)
BacktraceFrom(tr, la, lb, dd, cx, cy, es) ==
    IF dd > 0
    THEN LET r == BacktraceIteration(tr, la, lb, dd, cx, cy, es)
         IN BacktraceFrom(tr, la, lb, dd - 1, r.x, r.y, r.edits)
    ELSE Reverse(RemainingDiagonal(la, cx, cy, es))

BuildEditScript(tr, la, lb) ==
    BacktraceFrom(tr, la, lb, Len(tr) - 1, Len(la), Len(lb), <<>>)

MyersDiff(la, lb) ==
    IF Len(la) + Len(lb) = 0 THEN <<>>
    ELSE IF Identical(la, lb) THEN AllEqual(la)
    ELSE BuildEditScript(
             SearchFrom(InitialV(Len(la) + Len(lb)), <<>>, 0, la, lb), la, lb)

\* diffSnapshots as a function of the two texts.
DiffSnapshots(t1, t2) == SnapshotData(MyersDiff(Split(t1), Split(t2)))

NoResult ==
    [diff |-> <<>>, additions |-> 0, removals |-> 0, unchanged |-> 0,
     changed |-> FALSE]

ImgIdle ==
    /\ imgA = [width |-> 1, height |-> 1, data |-> <<>>]
    /\ imgB = [width |-> 1, height |-> 1, data |-> <<>>]
    /\ ipc = "idle"
    /\ threshold = 1
    /\ pixelResult = <<>>
    /\ shotResult = <<>>

Init ==
    /\ before \in TextsUpTo(MaxChars)
    /\ after \in TextsUpTo(MaxChars - Len(before))
    /\ pc = "split"
    /\ a = <<>> /\ b = <<>>
    /\ v = <<>> /\ trace = <<>> /\ d = 0
    /\ x = 0 /\ y = 0 /\ bd = 0 /\ edits = <<>>
    /\ snap = <<>> /\ prevX = 0 /\ prevY = 0 /\ prevDef = FALSE
    /\ result = NoResult
    /\ ImgIdle

\* diffSnapshots, lines 128-129.
SplitLines ==
    /\ pc = "split"
    /\ a' = Split(before)
    /\ b' = Split(after)
    /\ pc' = "myers"
    /\ UNCHANGED <<before, after, v, trace, d, x, y, bd, edits, snap,
                   prevX, prevY, prevDef, result>>
    /\ UNCHANGED imgVars

\* myersDiff up to the search loop: the empty case, the fast path, the set-up.
MyersStart ==
    /\ pc = "myers"
    /\ IF Len(a) + Len(b) = 0
       THEN /\ edits' = <<>>
            /\ pc' = "render"
            /\ UNCHANGED <<v, d>>
       ELSE IF Identical(a, b)
       THEN /\ edits' = AllEqual(a)
            /\ pc' = "render"
            /\ UNCHANGED <<v, d>>
       ELSE /\ v' = InitialV(Len(a) + Len(b))
            /\ d' = 0
            /\ edits' = <<>>
            /\ pc' = "search"
    /\ UNCHANGED <<before, after, a, b, trace, x, y, bd, snap,
                   prevX, prevY, prevDef, result>>
    /\ UNCHANGED imgVars

\* One iteration of the outer loop of myersDiff; on success, or when the loop
\* runs out, the entry of buildEditScript.
SearchStep ==
    /\ pc = "search"
    /\ LET tr == Append(trace, v)
           r == SearchDiagonals(v, d, -d, a, b)
       IN /\ trace' = tr
          /\ v' = r.v
          /\ IF r.found \/ d + 1 > Len(a) + Len(b)
             THEN /\ pc' = "backtrace"
                  /\ x' = Len(a)
                  /\ y' = Len(b)
                  /\ bd' = Len(tr) - 1
                  /\ d' = d
             ELSE /\ d' = d + 1
                  /\ UNCHANGED <<pc, x, y, bd>>
    /\ UNCHANGED <<before, after, a, b, edits, snap, prevX, prevY, prevDef,
                   result>>
    /\ UNCHANGED imgVars

\* One iteration of the loop of buildEditScript (d > 0).
BacktraceStep ==
    /\ pc = "backtrace"
    /\ bd > 0
    /\ LET r == BacktraceIteration(trace, a, b, bd, x, y, edits)
       IN /\ x' = r.x
          /\ y' = r.y
          /\ edits' = r.edits
          /\ snap' = r.snap
          /\ prevX' = r.prevX
          /\ prevY' = r.prevY
          /\ prevDef' = r.prevDef
    /\ bd' = bd - 1
    /\ UNCHANGED <<before, after, pc, a, b, v, trace, d, result>>
    /\ UNCHANGED imgVars

\* The end of buildEditScript: the remaining diagonal and the reverse.
BacktraceFinish ==
    /\ pc = "backtrace"
    /\ bd = 0
    /\ edits' = Reverse(RemainingDiagonal(a, x, y, edits))
    /\ pc' = "render"
    /\ UNCHANGED <<before, after, a, b, v, trace, d, x, y, bd, snap,
                   prevX, prevY, prevDef, result>>
    /\ UNCHANGED imgVars

\* diffSnapshots, lines 133-161.
Render ==
    /\ pc = "render"
    /\ result' = SnapshotData(edits)
    /\ pc' = "done"
    /\ UNCHANGED <<before, after, a, b, v, trace, d, x, y, bd, edits, snap,
                   prevX, prevY, prevDef>>
    /\ UNCHANGED imgVars

Next ==
    \/ SplitLines
    \/ MyersStart
    \/ SearchStep
    \/ BacktraceStep
    \/ BacktraceFinish
    \/ Render

Spec == Init /\ [][Next]_vars

\* ------------------------------------------------------------------------
\* Properties of the text differ
\* ------------------------------------------------------------------------

\* The number of lines of a text: one more than its newlines.
LineCount(text) == 1 + Cardinality({i \in 1..Len(text) : text[i] = NL})

Range(s) == {s[i] : i \in 1..Len(s)}

TwoChars(line) == IF Len(line) >= 2 THEN SubSeq(line, 1, 2) ELSE <<>>

\* The lines of the rendered diff that carry one of the prefixes, in order,
\* without the prefix.
RenderedLines(diff, prefixes) ==
    LET kept == SelectSeq(Split(diff), LAMBDA l : TwoChars(l) \in prefixes)
    IN [i \in 1..Len(kept) |-> SubSeq(kept[i], 3, Len(kept[i]))]

\* t2 is t1 followed by a newline and one more line; AppendedLine is that line.
IsAppend(t1, t2) ==
    /\ Len(t2) > Len(t1)
    /\ SubSeq(t2, 1, Len(t1)) = t1
    /\ t2[Len(t1) + 1] = NL
    /\ \A i \in (Len(t1) + 2)..Len(t2) : t2[i] # NL

AppendedLine(t1, t2) == SubSeq(t2, Len(t1) + 2, Len(t2))

\* No line of t1 is a line of t2.
Disjoint(t1, t2) == Range(Split(t1)) \cap Range(Split(t2)) = {}

\* The length of a longest common subsequence of two line sequences.
RECURSIVE LCS(_, _)
LCS(la, lb) ==
    IF la = <<>> \/ lb = <<>> THEN 0
    ELSE IF Head(la) = Head(lb) THEN 1 + LCS(Tail(la), Tail(lb))
    ELSE LET l1 == LCS(Tail(la), lb)
             l2 == LCS(la, Tail(lb))
         IN IF l1 >= l2 THEN l1 ELSE l2

\* C1: the rendered edit script, read first to last, transforms before's
\* lines into after's lines: its Equal and Delete lines, in order, are the
\* lines of before, and its Equal and Insert lines, in order, are the lines
\* of after.
C1_ScriptTransforms ==
    pc = "done" =>
        /\ RenderedLines(result.diff, {<<" ", " ">>, <<"-", " ">>}) = Split(before)
        /\ RenderedLines(result.diff, {<<" ", " ">>, <<"+", " ">>}) = Split(after)

\* C2: diffSnapshots(T, T) reports no change, no addition, no removal, and
\* as many unchanged lines as T has lines, which is at least 1.
C2_IdenticalInputs ==
    (pc = "done" /\ before = after) =>
        /\ result.changed = FALSE
        /\ result.additions = 0
        /\ result.removals = 0
        /\ result.unchanged = LineCount(before)
        /\ result.unchanged >= 1

C2_Witness ==
    /\ pc = "done"
    /\ before = <<>>
    /\ after = <<>>
    /\ result.unchanged = 1

\* C3: appending one line Y to A gives one addition, no removal, the lines
\* of A unchanged, changed = true, and a rendered line "+ Y".
C3_PureAppend ==
    (pc = "done" /\ IsAppend(before, after)) =>
        /\ result.additions = 1
        /\ result.removals = 0
        /\ result.unchanged = LineCount(before)
        /\ result.changed = TRUE
        /\ (<<"+", " ">> \o AppendedLine(before, after)) \in Range(Split(result.diff))

\* C4: removing the last line Y of A + "\n" + Y gives one removal, no
\* addition, the lines of A unchanged, changed = true, and a rendered
\* line "- Y".
C4_PureRemoval ==
    (pc = "done" /\ IsAppend(after, before)) =>
        /\ result.removals = 1
        /\ result.additions = 0
        /\ result.unchanged = LineCount(after)
        /\ result.changed = TRUE
        /\ (<<"-", " ">> \o AppendedLine(after, before)) \in Range(Split(result.diff))

\* C5: when no line of before is a line of after, every line of after is an
\* addition, every line of before is a removal, and nothing is unchanged.
C5_DisjointInputs ==
    (pc = "done" /\ Disjoint(before, after)) =>
        /\ result.additions = LineCount(after)
        /\ result.removals = LineCount(before)
        /\ result.unchanged = 0

\* C6: swapping the inputs swaps additions and removals.
C6_SwapSymmetry ==
    pc = "done" =>
        /\ result.additions = DiffSnapshots(after, before).removals
        /\ result.removals = DiffSnapshots(after, before).additions

\* C7: the search stops at depth N + M - 2 * LCS, the script has that many
\* insertions and deletions together, and LCS unchanged lines.
C7_Minimality ==
    pc = "done" =>
        LET dist == Len(a) + Len(b) - 2 * LCS(a, b)
        IN /\ trace # <<>> => Len(trace) - 1 = dist
           /\ result.additions + result.removals = dist
           /\ result.unchanged = LCS(a, b)

\* C10: after the backtrace iteration for depth d, the snapshot it read is
\* the one captured just before the search processed depth d, and the
\* predecessor point lies inside the grid, at or before the current point:
\* 0 <= prevX <= x <= N and 0 <= prevY <= y <= M.
C10_BacktraceSnapshotRule ==
    (pc = "backtrace" /\ bd < Len(trace) - 1) =>
        /\ snap = TraceAt(trace, bd + 1)
        /\ prevDef
        /\ 0 <= prevX /\ prevX <= x /\ x <= Len(a)
        /\ 0 <= prevY /\ prevY <= y /\ y <= Len(b)

\* ------------------------------------------------------------------------
\* Image diffing
\* ------------------------------------------------------------------------

\* RGBA pixels as getImageData returns them.  The colours and the thresholds
\* below are chosen so that no colour distance is exactly the threshold
\* distance: there the comparison of the two floating-point values is the
\* comparison of the exact values.
Black == <<0, 0, 0, 255>>
Grey == <<30, 30, 30, 128>>
Red == <<255, 0, 0, 255>>

Palette == {Black, Grey, Red}

\* Thresholds in tenths: 0, 0.1, 0.2, 0.5 and 1.
Thresholds == {0, 1, 2, 5, 10}

\* opts.threshold: absent, or a number.
ThresholdOpts == {<<>>} \cup {<<t>> : t \in Thresholds}

\* opts.outputPath: absent, or a path.
OutputPathOpts == {<<>>, <<"custom.png">>}

Dimensions == {wh \in (1..MaxPixels) \X (1..MaxPixels) : wh[1] * wh[2] <= MaxPixels}

Images ==
    UNION {[width : {wh[1]}, height : {wh[2]},
            data : [1..(wh[1] * wh[2]) -> Palette]] : wh \in Dimensions}

Area(img) == img.width * img.height

MaxOf(i, j) == IF i >= j THEN i ELSE j

\* opts.threshold ?? 0.1
ThresholdOf(opt) == IF opt = <<>> THEN 1 ELSE opt[1]

\* dr * dr + dg * dg + db * db
DistSquared(pa, pb) ==
    (pa[1] - pb[1]) * (pa[1] - pb[1])
    + (pa[2] - pb[2]) * (pa[2] - pb[2])
    + (pa[3] - pb[3]) * (pa[3] - pb[3])

\* The comparison inverted: dist < maxColorDistance.
PixelDiffersInverted(pa, pb, t) ==
    DistSquared(pa, pb) * 100 < t * t * 255 * 255 * 3

\* dist > maxColorDistance, that is sqrt(s) > (t / 10) * 255 * sqrt(3),
\* compared by the squares of the two sides times 100.
PixelDiffers(pa, pb, t) == DistSquared(pa, pb) * 100 > t * t * 255 * 255 * 3

\* differentPixels after the pixel loop.
DifferentPixels(ia, ib, t) ==
    Cardinality({i \in 1..Area(ia) : PixelDiffers(ia.data[i], ib.data[i], t)})

\* Math.round of the non-negative fraction num / den.
RoundDiv(num, den) == (2 * num + den) \div (2 * den)

\* Math.round((differentPixels / totalPixels) * 10000) / 100, in hundredths.
MismatchPercentage(different, total) == RoundDiv(different * 10000, total)

\* Math.round(c * 0.3)
Darken(c) == RoundDiv(c * 3, 10)

\* The visualization pixel.
DiffPixel(pa, pb, t) ==
    IF PixelDiffers(pa, pb, t)
    THEN <<255, 0, 0, 255>>
    ELSE <<Darken(pa[1]), Darken(pa[2]), Darken(pa[3]), 255>>

\* The smaller of the two areas taken for the larger.
MismatchPixelsMin(ia, ib) == IF Area(ia) <= Area(ib) THEN Area(ia) ELSE Area(ib)

\* totalPixels and differentPixels of the dimension-mismatch result.
MismatchPixels(ia, ib) == MaxOf(Area(ia), Area(ib))

\* What pixelDiffFn returns; mismatchPercentage is in hundredths of a percent.
PixelDiff(ia, ib, t) ==
    IF ia.width # ib.width \/ ia.height # ib.height
    THEN [totalPixels |-> MismatchPixels(ia, ib),
          differentPixels |-> MismatchPixels(ia, ib),
          mismatchPercentage |-> 100 * 100,
          diffData |-> <<<<0, 0, 0, 0>>>>,
          dimensionMismatch |-> TRUE]
    ELSE [totalPixels |-> Area(ia),
          differentPixels |-> DifferentPixels(ia, ib, t),
          mismatchPercentage |->
              MismatchPercentage(DifferentPixels(ia, ib, t), Area(ia)),
          diffData |-> [i \in 1..Area(ia) |-> DiffPixel(ia.data[i], ib.data[i], t)],
          dimensionMismatch |-> FALSE]

\* result.differentPixels === 0
IsMatch(r) == r.differentPixels = 0

\* What diffScreenshots returns; an absent dimensionMismatch is <<>>.
ScreenshotData(r, outputPath) ==
    [diffPath |-> IF outputPath = <<>> THEN "default.png" ELSE outputPath[1],
     totalPixels |-> r.totalPixels,
     differentPixels |-> r.differentPixels,
     mismatchPercentage |-> r.mismatchPercentage,
     match |-> IsMatch(r),
     dimensionMismatch |-> IF r.dimensionMismatch THEN <<TRUE>> ELSE <<>>]

TextIdle ==
    /\ before = <<>> /\ after = <<>>
    /\ pc = "idle"
    /\ a = <<>> /\ b = <<>>
    /\ v = <<>> /\ trace = <<>> /\ d = 0
    /\ x = 0 /\ y = 0 /\ bd = 0 /\ edits = <<>>
    /\ snap = <<>> /\ prevX = 0 /\ prevY = 0 /\ prevDef = FALSE
    /\ result = NoResult

InitImg ==
    /\ TextIdle
    /\ imgA \in Images
    /\ imgB \in Images
    /\ ipc = "evaluate"
    /\ threshold = 1
    /\ pixelResult = <<>>
    /\ shotResult = <<>>

\* page.evaluate(pixelDiffFn, ...) with both images loaded.
EvaluatePixelDiff ==
    /\ ipc = "evaluate"
    /\ \E opt \in ThresholdOpts :
          /\ threshold' = ThresholdOf(opt)
          /\ pixelResult' = PixelDiff(imgA, imgB, ThresholdOf(opt))
    /\ ipc' = "write"
    /\ UNCHANGED <<imgA, imgB, shotResult>>
    /\ UNCHANGED textVars

\* page.evaluate(pixelDiffFn, ...) rejecting: an image failed to load.
EvaluateFails ==
    /\ ipc = "evaluate"
    /\ ipc' = "failed"
    /\ UNCHANGED <<imgA, imgB, threshold, pixelResult, shotResult>>
    /\ UNCHANGED textVars

\* diffScreenshots, lines 290-312: the output path, the write, the result.
WriteAndReturn ==
    /\ ipc = "write"
    /\ \E out \in OutputPathOpts :
          shotResult' = ScreenshotData(pixelResult, out)
    /\ ipc' = "done"
    /\ UNCHANGED <<imgA, imgB, threshold, pixelResult>>
    /\ UNCHANGED textVars

NextImg ==
    \/ EvaluatePixelDiff
    \/ EvaluateFails
    \/ WriteAndReturn

SpecImg == InitImg /\ [][NextImg]_vars

\* ------------------------------------------------------------------------
\* Properties of the image differ
\* ------------------------------------------------------------------------

DimensionsDiffer == imgA.width # imgB.width \/ imgA.height # imgB.height

\* C8: images of different dimensions give dimensionMismatch = true,
\* mismatchPercentage = 100, differentPixels = totalPixels = the larger of
\* the two areas, and match = false; and in every result
\* match = (differentPixels = 0 and not dimensionMismatch).
C8_DimensionMismatch ==
    ipc = "done" =>
        /\ DimensionsDiffer =>
              /\ shotResult.dimensionMismatch = <<TRUE>>
              /\ shotResult.mismatchPercentage = 100 * 100
              /\ shotResult.differentPixels = shotResult.totalPixels
              /\ shotResult.totalPixels
                     = (IF Area(imgA) >= Area(imgB) THEN Area(imgA) ELSE Area(imgB))
              /\ shotResult.match = FALSE
        /\ shotResult.match
               = (shotResult.differentPixels = 0
                  /\ shotResult.dimensionMismatch # <<TRUE>>)

C8_Witness ==
    /\ ipc = "done"
    /\ DimensionsDiffer
    /\ Area(imgA) < Area(imgB)
    /\ shotResult.totalPixels = Area(imgB)
    /\ shotResult.match = FALSE

\* The pixels of two images of equal dimensions whose colour distance,
\* alpha left out, is above the threshold distance.
FarPixels(ia, ib, t) ==
    {i \in 1..Area(ia) :
        LET pa == ia.data[i]
            pb == ib.data[i]
            dr == pa[1] - pb[1]
            dg == pa[2] - pb[2]
            db == pa[3] - pb[3]
        IN 100 * (dr * dr + dg * dg + db * db) > 3 * (255 * t) * (255 * t)}

\* C9: for two images of equal dimensions and thresholds t1 <= t2, the
\* differentPixels and mismatchPercentage computed with t1 are at least
\* those computed with t2, and the pixels counted are those whose RGB
\* distance is above threshold * 255 * sqrt(3).
C9_ThresholdMonotone ==
    (ipc \in {"write", "done"} /\ ~DimensionsDiffer) =>
        /\ pixelResult.differentPixels = Cardinality(FarPixels(imgA, imgB, threshold))
        /\ \A t \in Thresholds :
              LET other == PixelDiff(imgA, imgB, t) IN
              /\ t <= threshold =>
                    /\ other.differentPixels >= pixelResult.differentPixels
                    /\ other.mismatchPercentage >= pixelResult.mismatchPercentage
              /\ t >= threshold =>
                    /\ other.differentPixels <= pixelResult.differentPixels
                    /\ other.mismatchPercentage <= pixelResult.mismatchPercentage

C9_Witness ==
    /\ ipc = "write"
    /\ ~DimensionsDiffer
    /\ threshold = 2
    /\ PixelDiff(imgA, imgB, 1).differentPixels > pixelResult.differentPixels
    /\ pixelResult.differentPixels > PixelDiff(imgA, imgB, 10).differentPixels

====
